---- MODULE Spec2Model ----
(***************************************************************************)
(* Model of src/main.py: the Streamlit chat handler, get_agent_response    *)
(* (two-round function-calling exchange with the completion endpoint) and  *)
(* get_stock_info (the stock-quote tool).                                  *)
(*                                                                         *)
(* A Python value x is a pair <<type, payload>>, x[1] its type, x[2] its    *)
(* payload:                                                                *)
(*   "null"   <<>>                  None / JSON null                       *)
(*   "str"    sequence of chunks    a str; "" is <<>>; + is \o             *)
(*   "num"    sequence of chunks    a number, by its decimal text          *)
(*   "list"   sequence of values    a list                                 *)
(*   "dict"   function key->value   a dict with str keys                   *)
(*   "json"   a value               the str json.dumps(value) returns      *)
(*   "raise"  <<exception class>>   an exception propagating               *)
(***************************************************************************)
EXTENDS Naturals, Sequences, FiniteSets, TLC

VARIABLES
    api_key,        \* module global api_key (line 32)
    json_error,     \* the class response.json() raises in the installed requests
    messages,       \* st.session_state.messages
    pc,             \* position of the chat-input handler
    turn,           \* number of completed turns
    prompt,         \* the current turn's prompt
    chat_history,   \* local chat_history of get_agent_response
    result,         \* local result (first response body)
    function_call,  \* local function_call
    info,           \* what yf.Ticker(ticker).info evaluated to in get_stock_info
    tool_output,    \* local tool_output
    result_final,   \* local result_final (second response body)
    exc,            \* the exception e caught at line 186 or 189
    response,       \* value returned by get_agent_response
    calls           \* outbound calls of the current turn, in issue order

vars == <<api_key, json_error, messages, pc, turn, prompt, chat_history, result,
          function_call, info, tool_output, result_final, exc, response, calls>>

\* ------------------------------------------------------------------ bounds

MaxTurns == 2

\* ------------------------------------------------------------ Python values

None == <<"null", <<>>>>
Str(chunks) == <<"str", chunks>>
Lit(s) == <<"str", <<s>>>>
Num(s) == <<"num", <<s>>>>
List(l) == <<"list", l>>
Dict(m) == <<"dict", m>>
EmptyDict == <<"dict", [k \in {} |-> None]>>
Raise(cls) == <<"raise", <<cls>>>>

IsRaise(x) == x[1] = "raise"

\* bool(x)
Truthy(x) ==
    CASE x[1] = "null" -> FALSE
      [] x[1] = "str"  -> x[2] # <<>>
      [] x[1] = "num"  -> x[2] # <<"0">>
      [] x[1] = "list" -> x[2] # <<>>
      [] x[1] = "dict" -> DOMAIN x[2] # {}
      [] OTHER        -> TRUE

\* x.get(k)
PyGet(x, k) ==
    IF IsRaise(x) THEN x
    ELSE IF x[1] = "dict" THEN (IF k \in DOMAIN x[2] THEN x[2][k] ELSE None)
    ELSE Raise("AttributeError")

\* x[k] for a str key k
PySub(x, k) ==
    IF IsRaise(x) THEN x
    ELSE IF x[1] = "dict" THEN (IF k \in DOMAIN x[2] THEN x[2][k] ELSE Raise("KeyError"))
    ELSE Raise("TypeError")

\* x[0]; a str's first item is a one-character str (the samples are one chunk)
PyItem0(x) ==
    IF IsRaise(x) THEN x
    ELSE IF x[1] = "list" THEN (IF x[2] # <<>> THEN x[2][1] ELSE Raise("IndexError"))
    ELSE IF x[1] = "str" THEN (IF x[2] # <<>> THEN Str(<<x[2][1]>>) ELSE Raise("IndexError"))
    ELSE IF x[1] = "dict" THEN Raise("KeyError")
    ELSE Raise("TypeError")

\* a and b (b is a value, evaluated only when a is truthy)
PyAnd(a, b) == IF IsRaise(a) THEN a ELSE IF Truthy(a) THEN b ELSE a

\* f"{x}": the chunks of str(x)
PyFormat(x) ==
    CASE x[1] = "str"  -> x[2]
      [] x[1] = "num"  -> x[2]
      [] x[1] = "null" -> <<"None">>
      [] x[1] = "list" -> <<"[...]">>
      [] x[1] = "dict" -> <<"{...}">>
      [] OTHER        -> x[2]

\* json.dumps(x) / json.loads(s)
Dumps(x) == <<"json", x>>
Loads(s) == IF s[1] = "json" THEN s[2] ELSE Raise("JSONDecodeError")

\* sub in s, for str values
Contains(s, sub) ==
    /\ s[1] = "str"
    /\ \E i \in 0..(Len(s[2]) - Len(sub)) : SubSeq(s[2], i + 1, i + Len(sub)) = sub

\* ------------------------------------------------------- module constants

AGENT_MODEL == "gemini-2.0-flash"
AGENT_INSTRUCTION == Lit("You are a helpful stock market assistant. ...")

STOCK_INFO_TOOL_SCHEMA ==
    Dict([name |-> Lit("get_stock_info"),
          description |-> Lit("Fetches real-time stock information ..."),
          parameters |-> Dict([type |-> Lit("OBJECT"),
                               properties |-> Dict([ticker |-> Dict([type |-> Lit("STRING")])]),
                               required |-> List(<<Lit("ticker")>>)])])

\* the "tools" member of both payloads
Tools == List(<<Dict([functionDeclarations |-> List(<<STOCK_INFO_TOOL_SCHEMA>>)])>>)

\* ------------------------------------------------------------ get_stock_info

\* c.upper() on one chunk, over the sample alphabet
UpperChunk(c) == CASE c = "aapl" -> "AAPL" [] OTHER -> c

\* x.upper()
PyUpper(x) ==
    IF x[1] = "str" THEN Str([i \in 1..Len(x[2]) |-> UpperChunk(x[2][i])])
    ELSE Raise("AttributeError")

\* mutant of PyGetDefault: the default is dropped, as in info.get(k)
PyGetNoDefault(x, k, d) == PyGet(x, k)

\* info.get(k, d)
PyGetDefault(x, k, d) ==
    IF IsRaise(x) THEN x
    ELSE IF x[1] = "dict" THEN (IF k \in DOMAIN x[2] THEN x[2][k] ELSE d)
    ELSE Raise("AttributeError")

NA == Lit("N/A")

\* line 62
NotFoundRecord(ticker) ==
    Dict([error |-> Str(<<"Could not find information for ticker: ">> \o PyFormat(ticker)
                        \o <<". Please check the symbol.">>)])

\* line 82
FetchErrorRecord(ticker, e) ==
    Dict([error |-> Str(<<"An error occurred while fetching data for ">> \o PyFormat(ticker)
                        \o <<": ">> \o e[2])])

\* lines 67-79
QuoteRecord(ticker, inf) ==
    Dict([ticker        |-> PyUpper(ticker),
          longName      |-> PyGetDefault(inf, "longName", NA),
          currency      |-> PyGetDefault(inf, "currency", NA),
          exchange      |-> PyGetDefault(inf, "exchange", NA),
          currentPrice  |-> PyGetDefault(inf, "currentPrice",
                                PyGetDefault(inf, "regularMarketPrice", NA)),
          previousClose |-> PyGetDefault(inf, "previousClose", NA),
          open          |-> PyGetDefault(inf, "open", NA),
          dayHigh       |-> PyGetDefault(inf, "dayHigh", NA),
          dayLow        |-> PyGetDefault(inf, "dayLow", NA),
          volume        |-> PyGetDefault(inf, "volume", NA),
          marketCap     |-> PyGetDefault(inf, "marketCap", NA)])

\* an exception raised while evaluating one of the members of the dict display
FirstRaise(d) ==
    IF \E k \in DOMAIN d[2] : IsRaise(d[2][k])
    THEN d[2][CHOOSE k \in DOMAIN d[2] : IsRaise(d[2][k])]
    ELSE None

\* get_stock_info(ticker), where inf is what yf.Ticker(ticker).info evaluates to:
\* a mapping, None, or an exception raised by the lookup
get_stock_info(ticker, inf) ==
    IF IsRaise(inf) THEN Dumps(FetchErrorRecord(ticker, inf))
    ELSE IF ~Truthy(inf) THEN Dumps(NotFoundRecord(ticker))
    ELSE LET data == QuoteRecord(ticker, inf)
         IN  IF IsRaise(FirstRaise(data))
             THEN Dumps(FetchErrorRecord(ticker, FirstRaise(data)))
             ELSE Dumps(data)

\* --------------------------------------------------------- provider samples

InfoFull == Dict([longName |-> Lit("Apple Inc."), currency |-> Lit("USD"),
                  exchange |-> Lit("NMS"), currentPrice |-> Num("189.5"),
                  regularMarketPrice |-> Num("189.0"), previousClose |-> Num("188.0"),
                  open |-> Num("188.5"), dayHigh |-> Num("190.0"), dayLow |-> Num("187.0"),
                  volume |-> Num("1000"), marketCap |-> Num("2900000")])
InfoRegularOnly == Dict([longName |-> Lit("Apple Inc."), regularMarketPrice |-> Num("189.0")])
InfoSparse == Dict([trailingPegRatio |-> None])

\* what yf.Ticker(ticker).info can evaluate to; yf.Ticker itself calls ticker.upper(),
\* so the lookup of a ticker that is no str raises. The mapping is parsed from the
\* provider's JSON, so json.dumps at line 80 accepts every value in it
ProviderOutcomes(ticker) ==
    IF ticker[1] = "str"
    THEN {Raise("HTTPError"), None, EmptyDict, InfoFull, InfoRegularOnly, InfoSparse}
    ELSE {Raise("AttributeError")}

\* ------------------------------------------------- completion-endpoint samples

TextPart(x) == Dict([text |-> x])
CallPart(fc) == Dict([functionCall |-> fc])
\* {"candidates": [{"content": {"parts": [part]}}]}
Body(part) ==
    Dict([candidates |-> List(<<Dict([content |-> Dict([parts |-> List(<<part>>)])])>>)])

CallAAPL == Dict([name |-> Lit("get_stock_info"), args |-> Dict([ticker |-> Lit("AAPL")])])
CallLower == Dict([name |-> Lit("get_stock_info"), args |-> Dict([ticker |-> Lit("aapl")])])
CallNoTicker == Dict([name |-> Lit("get_stock_info"), args |-> EmptyDict])
CallNullArgs == Dict([name |-> Lit("get_stock_info"), args |-> None])
CallOther == Dict([name |-> Lit("do_something_else"), args |-> Dict([ticker |-> Lit("AAPL")])])
CallOtherNoArgs == Dict([name |-> Lit("do_something_else")])
CallNoName == Dict([args |-> Dict([ticker |-> Lit("AAPL")])])

\* parts[0] of the top candidate
TextParts == {TextPart(Lit("AAPL trades at 189.5 USD.")), TextPart(Str(<<>>)), TextPart(Num("42"))}
CallParts == {CallPart(CallAAPL), CallPart(CallLower), CallPart(CallNoTicker),
              CallPart(CallNullArgs), CallPart(CallOther), CallPart(CallOtherNoArgs),
              CallPart(CallNoName), CallPart(Lit("get_stock_info")),
              Dict([functionCall |-> CallAAPL, text |-> Lit("Let me check.")])}

\* bodies that lack the expected members
OddBodies ==
    {List(<<>>),
     EmptyDict,
     Dict([candidates |-> List(<<>>)]),
     Dict([candidates |-> Num("5")]),
     Dict([candidates |-> List(<<None>>)]),
     Dict([candidates |-> List(<<Dict([finishReason |-> Lit("SAFETY")])>>)]),
     Dict([candidates |-> List(<<Dict([content |-> Dict([parts |-> List(<<>>)])])>>)]),
     Body(Lit("x")),
     Body(EmptyDict)}

FirstBodies == {Body(p) : p \in TextParts \cup CallParts} \cup OddBodies
SecondBodies ==
    {Body(p) : p \in TextParts} \cup
    {Body(CallPart(CallAAPL)), Body(Dict([functionCall |-> CallAAPL, text |-> Lit("Let me check.")])),
     List(<<>>), Dict([candidates |-> List(<<>>)]), Body(Lit("x"))}

\* what one requests.post can do: raise (net), answer non-2xx (~ok), or answer 2xx
\* with a body that is JSON text or not
Answer(net, ok, body) == [net |-> net, ok |-> ok, body |-> body]
NotJson == Lit("<html>")
Failures == {Answer(TRUE, FALSE, NotJson), Answer(FALSE, FALSE, NotJson),
             Answer(FALSE, TRUE, NotJson)}
FirstAnswers == Failures \cup {Answer(FALSE, TRUE, Dumps(b)) : b \in FirstBodies}
SecondAnswers == Failures \cup {Answer(FALSE, TRUE, Dumps(b)) : b \in SecondBodies}

\* --------------------------------------------------------- get_agent_response

\* mutant of CredentialMissing: only None counts, as in "api_key is None"
CredentialIsNone(key) == key = None

\* line 107
CredentialMissing(key) == ~Truthy(key)

MISSING_KEY == Lit("Gemini API Key is missing. Please provide it to use the assistant.")
NO_CLEAR_RESPONSE == Lit("I couldn't get a clear response from the model. Please try again.")
NO_FORMULATION == Lit("I received data from the stock tool, but couldn't formulate a clear response.")
UNEXPECTED == Lit("An unexpected error occurred.")

\* lines 112-115
InitialHistory(p) ==
    <<Dict([role |-> Lit("user"), parts |-> List(<<Dict([text |-> AGENT_INSTRUCTION])>>)]),
      Dict([role |-> Lit("user"), parts |-> List(<<Dict([text |-> p])>>)])>>

\* lines 117-122 and 159-164
Payload(history) == Dict([contents |-> List(history), tools |-> Tools])

\* lines 127-129 and 165-167: post, raise_for_status, json
PostJson(answer, jsonError) ==
    IF answer.net THEN Raise("ConnectionError")
    ELSE IF ~answer.ok THEN Raise("HTTPError")
    ELSE IF IsRaise(Loads(answer.body)) THEN Raise(jsonError)
    ELSE Loads(answer.body)

\* result["candidates"][0]["content"]["parts"][0]
Part0(res) == PyItem0(PySub(PySub(PyItem0(PySub(res, "candidates")), "content"), "parts"))

\* the four-fold "and" of lines 132-134 (key "functionCall"), 169-171 and 179-181 (key "text")
Extract(res, key) ==
    PyAnd(PyGet(res, "candidates"),
      PyAnd(PyGet(PyItem0(PySub(res, "candidates")), "content"),
        PyAnd(PyGet(PySub(PyItem0(PySub(res, "candidates")), "content"), "parts"),
              PyGet(Part0(res), key))))

\* lines 186-191
IsRequestException(e) == e[2][1] \in {"ConnectionError", "HTTPError", "requests.JSONDecodeError"}
TransportMessage(e) ==
    Str(<<"I'm currently unable to provide a response due to a technical issue: ">> \o e[2]
        \o <<". Please ensure your API key is correct and has access to the '">>
        \o <<AGENT_MODEL>> \o <<"' model.">>)
\* mutant of Handle: only the generic handler of lines 189-191
HandleGeneric(e) == UNEXPECTED
Handle(e) == IF IsRequestException(e) THEN TransportMessage(e) ELSE UNEXPECTED

\* line 176
UnknownFunction(function_name) ==
    Str(<<"Agent tried to call an unknown function: ">> \o PyFormat(function_name))

\* mutant of DirectText: the text is never extracted
DirectTextDropped(res) == NO_CLEAR_RESPONSE

\* lines 177-184
DirectText(res) ==
    IF IsRaise(Extract(res, "text")) THEN Handle(Extract(res, "text"))
    ELSE IF Truthy(Extract(res, "text")) THEN PySub(Part0(res), "text")
    ELSE NO_CLEAR_RESPONSE

\* mutant of FinalText: the first round's branch (lines 179-184) in its place
FinalTextAsDirect(res) == DirectText(res)

\* lines 169-174
FinalText(res) ==
    IF IsRaise(Extract(res, "text")) THEN Handle(Extract(res, "text"))
    ELSE IF Truthy(Extract(res, "text")) THEN PySub(Part0(res), "text")
    ELSE NO_FORMULATION

\* line 140
IsRegistered(function_name) == function_name = Lit("get_stock_info")

\* mutant of AugmentedHistory: the model's own turn is not recorded
AugmentedNoModelTurn(history, fc, output) ==
    history \o
    <<Dict([role |-> Lit("function"),
            parts |-> List(<<Dict([functionResponse |->
                        Dict([name |-> Lit("get_stock_info"), response |-> Loads(output)])])>>)])>>

\* lines 147-156
AugmentedHistory(history, fc, output) ==
    history \o
    <<Dict([role |-> Lit("model"), parts |-> List(<<Dict([functionCall |-> fc])>>)]),
      Dict([role |-> Lit("function"),
            parts |-> List(<<Dict([functionResponse |->
                        Dict([name |-> Lit("get_stock_info"), response |-> Loads(output)])])>>)])>>

\* entries of the call log
PostCall(payload) == [op |-> "post", arg |-> payload]
ToolCall(ticker) == [op |-> "get_stock_info", arg |-> ticker]

\* mutant of AppendMessage: the history is replaced by the new entry
ReplaceMessages(history, role, content) == <<[role |-> role, content |-> content]>>

\* lines 197 and 209
AppendMessage(history, role, content) ==
    Append(history, [role |-> role, content |-> content])

\* mutant of ToolTicker: a fixed symbol instead of the requested one
ToolTickerFixed(function_args) == Lit("AAPL")

\* line 143: the argument handed to get_stock_info
ToolTicker(function_args) == PyGet(function_args, "ticker")

\* the marker of a turn that goes on to the tool round
Pending == <<"pending", <<>>>>

\* lines 131-184 up to the tool call: the exception raised, the value returned,
\* or Pending when get_stock_info is to be called
Dispatch(res) ==
    LET cond == Extract(res, "functionCall")
        fc   == PySub(Part0(res), "functionCall")
        function_name == PySub(fc, "name")
        function_args == PySub(fc, "args")
    IN  IF IsRaise(cond) THEN cond
        ELSE IF Truthy(cond)
        THEN IF IsRaise(function_name) THEN function_name
             ELSE IF IsRaise(function_args) THEN function_args
             ELSE IF IsRegistered(function_name)
                  THEN (IF IsRaise(ToolTicker(function_args))
                        THEN ToolTicker(function_args) ELSE Pending)
                  ELSE UnknownFunction(function_name)
        ELSE IF IsRaise(Extract(res, "text")) THEN Extract(res, "text")
        ELSE DirectText(res)

\* ------------------------------------------------------------------ inputs

\* st.chat_input yields only non-empty text
Prompts == {Lit("What is the price of AAPL?"), Lit("hi")}
\* os.getenv("GOOGLE_API_KEY")
ApiKeys == {None, Str(<<>>), Lit("k3y")}
\* requests >= 2.27 raises requests.JSONDecodeError (a RequestException) from
\* response.json(); older releases raise json.JSONDecodeError (a ValueError)
JsonErrors == {"requests.JSONDecodeError", "json.JSONDecodeError"}

\* ------------------------------------------------------------ state machine

Init ==
    /\ api_key \in ApiKeys
    /\ json_error \in JsonErrors
    /\ messages = <<>>
    /\ pc = "idle"
    /\ turn = 0
    /\ prompt = None
    /\ chat_history = <<>>
    /\ result = None
    /\ function_call = None
    /\ info = None
    /\ tool_output = None
    /\ result_final = None
    /\ exc = None
    /\ response = None
    /\ calls = <<>>

\* lines 195-197, then get_agent_response up to its first post (lines 107-127)
Submit(p) ==
    /\ pc = "idle"
    /\ turn < MaxTurns
    /\ messages' = AppendMessage(messages, "user", p)
    /\ prompt' = p
    /\ IF CredentialMissing(api_key)
       THEN /\ response' = MISSING_KEY
            /\ pc' = "returned"
            /\ UNCHANGED <<chat_history, calls>>
       ELSE /\ chat_history' = InitialHistory(p)
            /\ calls' = <<PostCall(Payload(InitialHistory(p)))>>
            /\ pc' = "first_call"
            /\ UNCHANGED response
    /\ UNCHANGED <<api_key, json_error, turn, result, function_call, info, tool_output,
                   result_final, exc>>

\* lines 127-143 and 175-191: the first post answers
FirstResponse(answer) ==
    /\ pc = "first_call"
    /\ LET res == PostJson(answer, json_error)
           out == IF IsRaise(res) THEN res ELSE Dispatch(res)
       IN  /\ result' = IF IsRaise(res) THEN result ELSE res
           /\ function_call' = IF ~IsRaise(res) /\ ~IsRaise(Extract(res, "functionCall"))
                                  /\ Truthy(Extract(res, "functionCall"))
                               THEN PySub(Part0(res), "functionCall") ELSE function_call
           /\ IF out = Pending
              THEN /\ calls' = Append(calls, ToolCall(ToolTicker(
                                   PySub(PySub(Part0(res), "functionCall"), "args"))))
                   /\ pc' = "tool"
                   /\ UNCHANGED <<exc, response>>
              ELSE /\ exc' = IF IsRaise(out) THEN out ELSE exc
                   /\ response' = IF IsRaise(out) THEN Handle(out) ELSE out
                   /\ pc' = "returned"
                   /\ UNCHANGED calls
    /\ UNCHANGED <<api_key, json_error, messages, turn, prompt, chat_history, info,
                   tool_output, result_final>>

\* lines 58-82 and 143-165: the lookup answers, the context is augmented and the
\* second post is issued
ToolReturn(i) ==
    /\ pc = "tool"
    /\ i \in ProviderOutcomes(calls[Len(calls)].arg)
    /\ info' = i
    /\ tool_output' = get_stock_info(calls[Len(calls)].arg, i)
    /\ chat_history' = AugmentedHistory(chat_history, function_call, tool_output')
    /\ calls' = Append(calls, PostCall(Payload(chat_history')))
    /\ pc' = "second_call"
    /\ UNCHANGED <<api_key, json_error, messages, turn, prompt, result, function_call,
                   result_final, exc, response>>

\* lines 165-174 and 186-191: the second post answers
SecondResponse(answer) ==
    /\ pc = "second_call"
    /\ LET res == PostJson(answer, json_error)
           out == IF IsRaise(res) THEN res
                  ELSE IF IsRaise(Extract(res, "text")) THEN Extract(res, "text")
                  ELSE FinalText(res)
       IN  /\ result_final' = IF IsRaise(res) THEN result_final ELSE res
           /\ exc' = IF IsRaise(out) THEN out ELSE exc
           /\ response' = IF IsRaise(out) THEN Handle(out) ELSE out
    /\ pc' = "returned"
    /\ UNCHANGED <<api_key, json_error, messages, turn, prompt, chat_history, result,
                   function_call, info, tool_output, calls>>

\* lines 206-209: get_agent_response has returned; its locals are gone
Finish ==
    /\ pc = "returned"
    /\ messages' = AppendMessage(messages, "assistant", response)
    /\ turn' = turn + 1
    /\ pc' = "idle"
    /\ prompt' = None
    /\ chat_history' = <<>>
    /\ result' = None
    /\ function_call' = None
    /\ info' = None
    /\ tool_output' = None
    /\ result_final' = None
    /\ exc' = None
    /\ response' = None
    /\ calls' = <<>>
    /\ UNCHANGED <<api_key, json_error>>

Next ==
    \/ \E p \in Prompts : Submit(p)
    \/ \E a \in FirstAnswers : FirstResponse(a)
    \/ \E i \in ProviderOutcomes(Lit("AAPL")) \cup ProviderOutcomes(None) : ToolReturn(i)
    \/ \E a \in SecondAnswers : SecondResponse(a)
    \/ Finish

Spec == Init /\ [][Next]_vars

\* ------------------------------------------------------------------ claims

\* the calls of the current turn with operation op
CallsOf(op) == {i \in DOMAIN calls : calls[i].op = op}
IsNonEmptyStr(x) == x[1] = "str" /\ x[2] # <<>>
\* parts[0] of the top candidate of a response body, when the body has one
HasPart0(res) == ~IsRaise(Part0(res)) /\ Part0(res)[1] = "dict"
\* the functionCall object of a response body whose parts[0] carries one
HasCall(res) ==
    /\ HasPart0(res)
    /\ "functionCall" \in DOMAIN Part0(res)[2]
    /\ Part0(res)[2].functionCall[1] = "dict"
CallOf(res) == Part0(res)[2].functionCall
\* the response is a plain text part: a str under "text", no functionCall
IsPlainText(res) ==
    /\ HasPart0(res)
    /\ DOMAIN Part0(res)[2] = {"text"}
    /\ Part0(res)[2].text[1] = "str"
\* the response is a tool invocation part: a functionCall object, no text
IsToolInvocation(res) ==
    /\ HasCall(res)
    /\ DOMAIN Part0(res)[2] = {"functionCall"}
    /\ "name" \in DOMAIN CallOf(res)[2]
IsTransportFailure(e) == IsRaise(e) /\ e[2][1] \in {"ConnectionError", "HTTPError"}

\* C1: get_agent_response always returns a non-empty string, whatever the prompt,
\* the credential and the outcomes of the remote calls.
C1_ReturnsNonEmptyString ==
    pc = "returned" => IsNonEmptyStr(response)

C2_RegisteredCall ==
    /\ HasCall(result)
    /\ "name" \in DOMAIN CallOf(result)[2]
    /\ CallOf(result)[2].name = Lit("get_stock_info")
    /\ "args" \in DOMAIN CallOf(result)[2]
    /\ CallOf(result)[2].args[1] = "dict"
    /\ "ticker" \in DOMAIN CallOf(result)[2].args[2]

\* C2: when the first response carries a functionCall naming get_stock_info with
\* ticker argument T, the turn makes exactly one get_stock_info call, with T, and
\* exactly one second completion call, issued after the fetch, whose context holds
\* the fetch's result (whatever the second call then answers).
C2_OneFetchThenOneSecondCall ==
    (pc = "returned" /\ C2_RegisteredCall) =>
        /\ Len(calls) = 3
        /\ calls[1].op = "post"
        /\ calls[2] = [op |-> "get_stock_info", arg |-> CallOf(result)[2].args[2].ticker]
        /\ calls[3].op = "post"
        /\ tool_output[1] = "json"
        /\ \E i \in DOMAIN calls[3].arg[2].contents[2] :
              PySub(PySub(PyItem0(PySub(calls[3].arg[2].contents[2][i], "parts")),
                          "functionResponse"), "response") = tool_output[2]
C2_Witness ==
    /\ pc = "returned"
    /\ result = Body(CallPart(CallLower))
    /\ info = InfoFull
    /\ response = Lit("AAPL trades at 189.5 USD.")

C3_UnregisteredCall ==
    /\ HasCall(result)
    /\ "name" \in DOMAIN CallOf(result)[2]
    /\ CallOf(result)[2].name # Lit("get_stock_info")

\* C3: when the first response carries a functionCall whose name is not the
\* registered one, the returned string names the unknown function and the turn
\* makes no get_stock_info call and no second completion call.
C3_UnknownToolReported ==
    (pc = "returned" /\ C3_UnregisteredCall) =>
        /\ response[1] = "str"
        /\ Contains(response, PyFormat(CallOf(result)[2].name))
        /\ Len(calls) = 1

\* C4 (as claimed): when the first response is a plain text part, that text is
\* returned unchanged and the turn makes no further call.
C4_PlainTextReturned ==
    (pc = "returned" /\ IsPlainText(result)) =>
        /\ response = Part0(result)[2].text
        /\ Len(calls) = 1
\* C4 (amended): when the first response is a plain text part whose text is not
\* empty, that text is returned unchanged and the turn makes no further call.
C4_NonEmptyTextReturned ==
    (pc = "returned" /\ IsPlainText(result) /\ Part0(result)[2].text[2] # <<>>) =>
        /\ response = Part0(result)[2].text
        /\ Len(calls) = 1
C4_Witness ==
    /\ pc = "returned"
    /\ result = Body(TextPart(Lit("AAPL trades at 189.5 USD.")))
    /\ response = Lit("AAPL trades at 189.5 USD.")
    /\ Len(calls) = 1

\* C5: with no credential (None or empty) get_agent_response returns a non-empty
\* string and the turn attempts no completion call and no market-data call.
C5_MissingCredential ==
    (pc # "idle" /\ ~Truthy(api_key)) =>
        /\ pc = "returned"
        /\ IsNonEmptyStr(response)
        /\ calls = <<>>
C5_Witness ==
    /\ pc = "returned"
    /\ api_key = Str(<<>>)
    /\ response = MISSING_KEY

\* C6: a turn makes at most two completion calls and at most one get_stock_info
\* call; when the second response is itself a tool invocation, nothing more is
\* called and the turn returns the fallback string.
C6_AtMostOneToolRound ==
    /\ Cardinality(CallsOf("post")) <= 2
    /\ Cardinality(CallsOf("get_stock_info")) <= 1
    /\ (pc = "returned" /\ IsToolInvocation(result_final)) =>
          /\ Len(calls) = 3
          /\ response = NO_FORMULATION
C6_Witness ==
    /\ pc = "returned"
    /\ result_final = Body(CallPart(CallAAPL))
    /\ Cardinality(CallsOf("post")) = 2
    /\ Cardinality(CallsOf("get_stock_info")) = 1

\* C7: a network error or non-2xx status of the first or of the second completion
\* call ends the turn: the failed call is the turn's last call, and the returned
\* string holds the failure's description and the configured model's name.
C7_TransportFailureTerminal ==
    (pc = "returned" /\ IsTransportFailure(exc)) =>
        /\ calls[Len(calls)].op = "post"
        /\ IF result = None THEN Len(calls) = 1
           ELSE Len(calls) = 3 /\ result_final = None
        /\ Cardinality(CallsOf("get_stock_info")) = Len(calls) - Cardinality(CallsOf("post"))
        /\ Contains(response, exc[2])
        /\ Contains(response, <<AGENT_MODEL>>)
C7_Witness ==
    /\ pc = "returned"
    /\ exc = Raise("HTTPError")
    /\ Len(calls) = 3

C8_Keys == {"ticker", "longName", "currency", "exchange", "currentPrice", "previousClose",
            "open", "dayHigh", "dayLow", "volume", "marketCap"}
C8_Field(k) == IF k \in DOMAIN info[2] THEN info[2][k] ELSE Lit("N/A")

\* C8: get_stock_info never raises and returns one of two shapes: for a non-empty
\* info mapping, a record with exactly the eleven keys, each the provider's value
\* or "N/A" when omitted, currentPrice falling back to regularMarketPrice first;
\* for no data or a faulting lookup, an error record whose message holds the ticker.
C8_QuoteOrError ==
    tool_output # None =>
        /\ tool_output[1] = "json"
        /\ tool_output[2][1] = "dict"
        /\ IF info[1] = "dict" /\ DOMAIN info[2] # {}
           THEN /\ DOMAIN tool_output[2][2] = C8_Keys
                /\ tool_output[2][2].ticker[1] = "str"
                /\ \A k \in C8_Keys \ {"ticker", "currentPrice"} :
                      tool_output[2][2][k] = C8_Field(k)
                /\ tool_output[2][2].currentPrice =
                      IF "currentPrice" \in DOMAIN info[2] THEN info[2].currentPrice
                      ELSE C8_Field("regularMarketPrice")
           ELSE /\ DOMAIN tool_output[2][2] = {"error"}
                /\ Contains(tool_output[2][2].error, PyFormat(calls[2].arg))
C8_Witness ==
    /\ pc = "second_call"
    /\ info = InfoRegularOnly
    /\ tool_output[2][2].currentPrice = Num("189.0")
    /\ tool_output[2][2].volume = Lit("N/A")

C9_Shape ==
    /\ Len(messages) = 2 * turn + (IF pc = "idle" THEN 0 ELSE 1)
    /\ \A i \in DOMAIN messages :
          messages[i].role = IF i % 2 = 1 THEN "user" ELSE "assistant"
C9_Step ==
    \/ messages' = messages /\ pc # "idle" /\ pc # "returned"
    \/ /\ pc = "idle"
       /\ pc' # "idle"
       /\ messages' = Append(messages, [role |-> "user", content |-> prompt'])
    \/ /\ pc = "returned"
       /\ pc' = "idle"
       /\ turn' = turn + 1
       /\ messages' = Append(messages, [role |-> "assistant", content |-> response])

\* C9: the session history only grows, by the turn's user text when the turn starts
\* and by the returned value when get_agent_response has returned: user and
\* assistant entries alternate, one pair per turn, no earlier entry changes, and
\* every returned turn, failed or not, leaves the handler idle for the next one.
C9_HistoryAppendOnly == [](C9_Shape) /\ [][C9_Step]_vars
C9_Witness ==
    /\ turn = 1
    /\ pc = "returned"
    /\ Len(messages) = 3
    /\ messages[2].content = TransportMessage(Raise("ConnectionError"))
    /\ response = Lit("AAPL trades at 189.5 USD.")

C10_Entry(role, part) == Dict([role |-> Lit(role), parts |-> List(<<part>>)])
C10_First ==
    <<C10_Entry("user", Dict([text |-> AGENT_INSTRUCTION])),
      C10_Entry("user", Dict([text |-> messages[Len(messages)].content]))>>

\* C10: the second request's context is the first request's two entries
\* (instruction, then this turn's user text) followed by a model entry holding the
\* functionCall object of the first response and a function entry, named
\* get_stock_info, holding what get_stock_info returned, quote or error record
\* alike; both requests carry the same tools list.
C10_SecondContext ==
    Len(calls) = 3 =>
        /\ calls[1].arg = Dict([contents |-> List(C10_First), tools |-> Tools])
        /\ tool_output[1] = "json"
        /\ calls[3].arg =
              Dict([contents |-> List(C10_First \o
                        <<C10_Entry("model", Dict([functionCall |-> CallOf(result)])),
                          C10_Entry("function", Dict([functionResponse |->
                              Dict([name |-> Lit("get_stock_info"),
                                    response |-> tool_output[2]])]))>>),
                    tools |-> calls[1].arg[2].tools])
C10_Witness ==
    /\ Len(calls) = 3
    /\ pc = "second_call"
    /\ info = EmptyDict
    /\ DOMAIN tool_output[2][2] = {"error"}
    /\ result = Body(CallPart(CallLower))

====
